---- MODULE Spec2Model ----
(***************************************************************************)
(* Model of the Gemini chatbot: the FastAPI relay (backend.py) and the     *)
(* Streamlit client (frontend.py).                                         *)
(*                                                                         *)
(* Texts whose words are counted are sequences of one-character strings;   *)
(* identifiers, error texts and fixed literals are strings.                *)
(***************************************************************************)
EXTENDS Integers, Sequences, FiniteSets, TLC

\* ------------------------------------------------------------------ bounds
NumReqs == 2        \* HTTP connections that may carry a request at once
MaxMsgs == 3        \* longest message list of a directly posted request
MaxTurns == 2       \* user turns of one client conversation
WriteCap == 3       \* the write counter saturates here

\* --------------------------------------------------------------- constants
SUPPORTED_MODELS ==
    {"gemini-1.5-flash", "gemini-1.5-pro", "gemini-2.0-flash-lite", "gemini-2.0-flash"}

DEFAULT_MODEL == "gemini-1.5-flash"

\* ChatRequest.model: Optional[str] = "gemini-1.5-flash"
REQUEST_MODEL_DEFAULT == "gemini-1.5-flash"

\* JSON body without a "model" key, and with "model": null
ABSENT == "<absent>"
NULL == "<null>"

\* Python's None as a cache value or local, and a local not yet bound
None == [tag |-> "None"]
Unbound == [tag |-> "unbound"]

\* genai.GenerativeModel(name): the handle remembers the name it was built for
GenerativeModel(name) == [tag |-> "GenerativeModel", model_name |-> name]

MessageRole == {"user", "assistant", "system"}

\* ------------------------------------------------------------------- texts
T_hello_world == <<"h","e","l","l","o"," ","w","o","r","l","d">>
T_hi == <<"h","i">>
T_odd == <<" ","a"," ","\t"," ","b"," ">>
T_blank == <<" ","\t">>
T_a == <<"a">>
T_b == <<"b">>
T_c == <<"c">>
T_hello_there == <<"h","e","l","l","o"," ","t","h","e","r","e">>
T_ok_nl == <<"o","k","\n">>
APOLOGY_API == <<"S","o","r","r","y",","," ","I"," ","e","n","c","o","u","n","t","e","r","e","d"," ","a","n"," ","e","r","r","o","r"," ","w","h","i","l","e"," ","p","r","o","c","e","s","s","i","n","g"," ","y","o","u","r"," ","r","e","q","u","e","s","t",".">>
APOLOGY_CONN == <<"S","o","r","r","y",","," ","I"," ","c","o","u","l","d","n","'","t"," ","c","o","n","n","e","c","t"," ","t","o"," ","t","h","e"," ","b","a","c","k","e","n","d"," ","s","e","r","v","i","c","e",".">>

\* characters str.split() and str.strip() treat as whitespace
Whitespace == {" ", "\t", "\n"}

\* ---------------------------------------------------------- pure functions
\* dict assignment d[k] = v
DictSet(d, k, v) == [x \in (DOMAIN d) \cup {k} |-> IF x = k THEN v ELSE d[x]]

\* not v.strip()
IsBlank(v) == \A i \in 1..Len(v) : v[i] \in Whitespace

\* the end of the piece starting at i when only " " separates
NextSpace(s, i) ==
    CHOOSE k \in i..(Len(s) + 1) :
        /\ (k = Len(s) + 1 \/ s[k] = " ")
        /\ \A m \in i..(k - 1) : s[m] # " "

\* str.split(" "): every single space separates, empty pieces are kept
RECURSIVE SplitOnSpace(_, _, _)
SplitOnSpace(s, i, acc) ==
    LET k == NextSpace(s, i)
    IN IF k > Len(s) THEN Append(acc, SubSeq(s, i, Len(s)))
       ELSE SplitOnSpace(s, k + 1, Append(acc, SubSeq(s, i, k - 1)))

PySplitSingleSpace(s) == SplitOnSpace(s, 1, <<>>)

\* str.split(): the first position at or after i that is not whitespace
SkipWhitespace(s, i) ==
    CHOOSE j \in i..(Len(s) + 1) :
        /\ (j = Len(s) + 1 \/ s[j] \notin Whitespace)
        /\ \A m \in i..(j - 1) : s[m] \in Whitespace

\* str.split(): the position after the word starting at j
ScanWord(s, j) ==
    CHOOSE k \in j..(Len(s) + 1) :
        /\ (k = Len(s) + 1 \/ s[k] \in Whitespace)
        /\ \A m \in j..(k - 1) : s[m] \notin Whitespace

\* str.split(): runs of whitespace separate, no empty pieces
RECURSIVE SplitFrom(_, _, _)
SplitFrom(s, i, acc) ==
    LET j == SkipWhitespace(s, i)
    IN IF j > Len(s) THEN acc
       ELSE SplitFrom(s, ScanWord(s, j), Append(acc, SubSeq(s, j, ScanWord(s, j) - 1)))

PySplit(s) == SplitFrom(s, 1, <<>>)

\* sep.join(parts)
RECURSIVE PyJoin(_, _)
PyJoin(sep, parts) ==
    IF parts = <<>> THEN <<>>
    ELSE IF Len(parts) = 1 THEN parts[1]
    ELSE parts[1] \o sep \o PyJoin(sep, Tail(parts))

\* [m.content for m in request.messages]
Contents(messages) == [i \in 1..Len(messages) |-> messages[i].content]

\* the usage dict of a successful chat
UsageOf(messages, text) ==
    [prompt_tokens |-> Len(PySplit(PyJoin(<<" ">>, Contents(messages)))),
     completion_tokens |-> Len(PySplit(text)),
     total_tokens |-> Len(PySplit(PyJoin(<<" ">>, Contents(messages)))) + Len(PySplit(text))]

\* request.messages[:-1] taken whole: the off-by-one that keeps the new turn
AllMessages(messages) == messages

\* request.messages[:-1]
AllButLast(messages) == SubSeq(messages, 1, Len(messages) - 1)

\* request.messages[-1]
LastMessage(messages) == messages[Len(messages)]

\* the history list comprehension handed to start_chat
FormatHistory(messages) ==
    [i \in 1..Len(AllButLast(messages)) |->
        [role |-> AllButLast(messages)[i].role,
         parts |-> <<AllButLast(messages)[i].content>>]]

\* pydantic's reading of the "model" key
ParseModel(m) == IF m = ABSENT THEN REQUEST_MODEL_DEFAULT ELSE m

\* ChatMessage.content_not_empty on every message, then ChatRequest.messages_not_empty
ValidBody(messages) ==
    /\ \A i \in 1..Len(messages) : ~IsBlank(messages[i].content)
    /\ Len(messages) # 0

\* lines 119-122 without the substitution
KeepRequested(m) == m

\* lines 119-122 testing for None in place of the allow-list
ResolveNullOnly(m) == IF m = NULL THEN DEFAULT_MODEL ELSE m

\* lines 119-122: the model name after the allow-list test
ResolveModel(m) == IF m \notin SUPPORTED_MODELS THEN DEFAULT_MODEL ELSE m

\* line 132 left out: the failed name is kept
KeepFailedName(name) == name

\* line 132: the name used after a failed initialization
FallbackName(name) == DEFAULT_MODEL

\* a fixed text in place of str(e)
GenericText(e) == "Internal Server Error"

\* str(e) of a provider exception
PyStr(e) == e.msg


\* ------------------------------------------------------------ input samples
\* values a caller may put under "model"
ModelInputs == SUPPORTED_MODELS \cup {ABSENT, NULL, "gemini-pro-vision"}

\* message lists posted to the concurrent relay
LeanMessages ==
    { <<>>,
      <<[role |-> "user", content |-> T_blank]>>,
      <<[role |-> "user", content |-> T_hi]>>,
      <<[role |-> "user", content |-> T_a],
        [role |-> "assistant", content |-> T_b],
        [role |-> "user", content |-> T_c]>> }

\* what the provider may answer to send_message
ProviderReplies == {T_hello_there, T_ok_nl}

\* what the provider may raise
ProviderErrors == {[msg |-> "429 Resource has been exhausted"],
                   [msg |-> "503 failed to connect"]}

\* what genai.list_models() may yield
ProviderModelLists ==
    { <<>>,
      <<[name |-> "models/gemini-1.5-flash", display_name |-> "Gemini 1.5 Flash",
         description |-> "Fast and versatile"]>> }

\* ------------------------------------------------------------------- state
VARIABLES
    model_instances,  \* backend.py: the handle cache, a dict keyed by model name
    running,          \* the request whose handler holds the event loop, or NoReq
    reqs,             \* per connection: the request, the handler's locals and position
    writes,           \* history: how often each key of model_instances was assigned
    initialized,      \* history: names for which GenerativeModel(name) succeeded
    session,          \* frontend.py: st.session_state
    cpc,              \* frontend.py: position of the script run
    reply             \* frontend.py: the value send_message returned

vars == <<model_instances, running, reqs, writes, initialized, session, cpc, reply>>

relayVars == <<model_instances, running, reqs, writes, initialized>>

clientVars == <<session, cpc, reply>>

Reqs == 1..NumReqs

NoReq == 0

NoBody == [tag |-> "none"]

NoResponse == [status |-> 0, detail |-> <<>>, body |-> NoBody]

IdleSlot ==
    [op |-> "none", pc |-> "idle",
     request |-> [model |-> "", messages |-> <<>>],
     model_name |-> "", model |-> Unbound, init_failed |-> FALSE,
     history |-> <<>>, turn |-> <<>>, calls |-> 0, exc |-> Unbound,
     response |-> NoResponse]

\* HTTPException(status_code, detail) and the other error responses
ErrorResponse(code, detail) == [status |-> code, detail |-> detail, body |-> NoBody]

OkResponse(body) == [status |-> 200, detail |-> <<>>, body |-> body]

\* one more assignment to key k
CountWrite(w, k) ==
    DictSet(w, k, IF k \in DOMAIN w
                  THEN (IF w[k] < WriteCap THEN w[k] + 1 ELSE w[k])
                  ELSE 1)

\* handlers run as threads: any handler may step at any time
CanStepThreaded(r) == TRUE

\* async def handlers without an await: a handler runs on the event loop from
\* its first line to its response, and no other handler runs meanwhile
CanStep(r) == running \in {NoReq, r}

\* the health list comprehension without its filter
AllKeys(instances) == DOMAIN instances

\* [model for model, instance in model_instances.items() if instance is not None]
AvailableModels(instances) == {m \in DOMAIN instances : instances[m] # None}

\* ------------------------------------------------------------------ startup
EmptyDict == [x \in {} |-> None]

InitRelay ==
    /\ \E ok \in BOOLEAN :
         /\ model_instances =
              DictSet(EmptyDict, DEFAULT_MODEL,
                      IF ok THEN GenerativeModel(DEFAULT_MODEL) ELSE None)
         /\ initialized = IF ok THEN {DEFAULT_MODEL} ELSE {}
    /\ writes = DictSet([x \in {} |-> 0], DEFAULT_MODEL, 1)
    /\ running = NoReq
    /\ reqs = [r \in Reqs |-> IdleSlot]

NoPrompt == <<>>

InitClient ==
    /\ session = [messages |-> <<>>,
                  token_usage |-> [prompt_tokens |-> 0, completion_tokens |-> 0,
                                   total_tokens |-> 0],
                  selected_model |-> "gemini-1.5-flash"]
    /\ cpc = "idle"
    /\ reply = NoPrompt

Init == InitRelay /\ InitClient

\* ------------------------------------------------------------ POST /chat
\* request parsing and validation, then lines 117-125
ChatBegin(r, m, msgs) ==
    /\ reqs[r].pc = "idle"
    /\ CanStep(r)
    /\ running' = r
    /\ LET base == [IdleSlot EXCEPT !.op = "chat",
                                    !.request = [model |-> m, messages |-> msgs]]
       IN IF ~ValidBody(msgs)
          THEN reqs' = [reqs EXCEPT ![r] =
                 [base EXCEPT !.pc = "done",
                              !.response = ErrorResponse(422,
                                  IF Len(msgs) = 0
                                  THEN <<"Value error, At least one message is required">>
                                  ELSE <<"Value error, Content cannot be empty">>)]]
          ELSE LET name == ResolveModel(ParseModel(m))
               IN reqs' = [reqs EXCEPT ![r] =
                    [base EXCEPT !.model_name = name,
                                 !.pc = IF name \notin DOMAIN model_instances
                                        THEN "init" ELSE "lookup"]]
    /\ UNCHANGED <<model_instances, writes, initialized>>

\* lines 126-128: GenerativeModel(model_name) succeeds and is memoized
ChatInitOk(r) ==
    /\ reqs[r].pc = "init"
    /\ CanStep(r)
    /\ model_instances' = DictSet(model_instances, reqs[r].model_name,
                                  GenerativeModel(reqs[r].model_name))
    /\ writes' = CountWrite(writes, reqs[r].model_name)
    /\ initialized' = initialized \cup {reqs[r].model_name}
    /\ reqs' = [reqs EXCEPT ![r].pc = "lookup"]
    /\ UNCHANGED <<running, clientVars>>

\* lines 129-132: GenerativeModel(model_name) raises
ChatInitFail(r) ==
    /\ reqs[r].pc = "init"
    /\ CanStep(r)
    /\ reqs' = [reqs EXCEPT ![r].pc = "lookup",
                            ![r].init_failed = TRUE,
                            ![r].model_name = FallbackName(reqs[r].model_name)]
    /\ UNCHANGED <<model_instances, writes, initialized, running, clientVars>>

\* lines 134-146
ChatLookup(r) ==
    /\ reqs[r].pc = "lookup"
    /\ CanStep(r)
    /\ LET name == reqs[r].model_name
       IN IF name \notin DOMAIN model_instances
          THEN \* KeyError leaves the handler: the framework answers 500
               reqs' = [reqs EXCEPT ![r].pc = "done",
                          ![r].response = ErrorResponse(500, <<"Internal Server Error">>)]
          ELSE LET model == model_instances[name]
               IN IF model = None
                  THEN reqs' = [reqs EXCEPT ![r].pc = "done", ![r].model = model,
                         ![r].response = ErrorResponse(503,
                            <<"Model ", name,
                              " is not available. Please check your API key and permissions.">>)]
                  ELSE IF Len(reqs[r].request.messages) = 0
                  THEN reqs' = [reqs EXCEPT ![r].pc = "done", ![r].model = model,
                         ![r].response = ErrorResponse(400, <<"No messages provided">>)]
                  ELSE reqs' = [reqs EXCEPT ![r].pc = "send", ![r].model = model]
    /\ UNCHANGED <<model_instances, writes, initialized, running, clientVars>>

\* lines 150-161: start_chat with the history, then send_message goes out
ChatSend(r) ==
    /\ reqs[r].pc = "send"
    /\ CanStep(r)
    /\ reqs' = [reqs EXCEPT ![r].pc = "wait",
                            ![r].history = FormatHistory(reqs[r].request.messages),
                            ![r].turn = LastMessage(reqs[r].request.messages).content,
                            ![r].calls = reqs[r].calls + 1]
    /\ UNCHANGED <<model_instances, writes, initialized, running, clientVars>>

\* lines 161-170: send_message returns
ChatReturnOk(r) ==
    /\ reqs[r].pc = "wait"
    /\ CanStep(r)
    /\ \E text \in ProviderReplies :
         reqs' = [reqs EXCEPT ![r].pc = "done",
                    ![r].response = OkResponse(
                        [response |-> text,
                         usage |-> UsageOf(reqs[r].request.messages, text)])]
    /\ UNCHANGED <<model_instances, writes, initialized, running, clientVars>>

\* lines 171-172: send_message raises
ChatReturnError(r) ==
    /\ reqs[r].pc = "wait"
    /\ CanStep(r)
    /\ \E e \in ProviderErrors :
         reqs' = [reqs EXCEPT ![r].pc = "done", ![r].exc = e,
                    ![r].response = ErrorResponse(500, <<PyStr(e)>>)]
    /\ UNCHANGED <<model_instances, writes, initialized, running, clientVars>>

\* ------------------------------------------------------------ GET /health
HealthCheck(r) ==
    /\ reqs[r].pc = "idle"
    /\ CanStep(r)
    /\ running' = r
    /\ reqs' = [reqs EXCEPT ![r] =
         [IdleSlot EXCEPT !.op = "health", !.pc = "done",
            !.response = OkResponse(
                [status |-> "healthy", model |-> DEFAULT_MODEL,
                 available_models |-> AvailableModels(model_instances),
                 version |-> "1.0.0"])]]
    /\ UNCHANGED <<model_instances, writes, initialized, clientVars>>

\* ------------------------------------------------------------ GET /models
\* line 188: genai.list_models() goes out
ListModelsCall(r) ==
    /\ reqs[r].pc = "idle"
    /\ CanStep(r)
    /\ running' = r
    /\ reqs' = [reqs EXCEPT ![r] = [IdleSlot EXCEPT !.op = "models", !.pc = "wait",
                                                    !.calls = 1]]
    /\ UNCHANGED <<model_instances, writes, initialized, clientVars>>

\* lines 189-199: the listing returns or raises.  ModelsResponse is built
\* without its required count, which pydantic reports as a missing field
\* before the 'before' validator could supply it; the except clause turns
\* either failure into a 500
ListModelsReturn(r) ==
    /\ reqs[r].pc = "wait"
    /\ reqs[r].op = "models"
    /\ CanStep(r)
    /\ \/ \E lst \in ProviderModelLists :
            reqs' = [reqs EXCEPT ![r].pc = "done",
                       ![r].response = ErrorResponse(500,
                           <<"1 validation error for ModelsResponse", "count", "Field required">>)]
       \/ \E e \in ProviderErrors :
            reqs' = [reqs EXCEPT ![r].pc = "done",
                       ![r].response = ErrorResponse(500, <<PyStr(e)>>)]
    /\ UNCHANGED <<model_instances, writes, initialized, running, clientVars>>

\* the response is written to the connection; the event loop is free again
Respond(r) ==
    /\ reqs[r].pc = "done"
    /\ CanStep(r)
    /\ reqs' = [reqs EXCEPT ![r] = IdleSlot]
    /\ running' = NoReq
    /\ UNCHANGED <<model_instances, writes, initialized>>

\* a caller posts a chat request of its own making
ChatCall(r) ==
    /\ reqs[r].pc = "idle"
    /\ \E m \in ModelInputs, msgs \in LeanMessages : ChatBegin(r, m, msgs)
    /\ UNCHANGED clientVars

\* the response reaches a caller other than the client
Deliver(r) ==
    /\ Respond(r)
    /\ UNCHANGED clientVars

Next ==
    \/ \E r \in Reqs : ChatCall(r)
    \/ \E r \in Reqs : ChatInitOk(r)
    \/ \E r \in Reqs : ChatInitFail(r)
    \/ \E r \in Reqs : ChatLookup(r)
    \/ \E r \in Reqs : ChatSend(r)
    \/ \E r \in Reqs : ChatReturnOk(r)
    \/ \E r \in Reqs : ChatReturnError(r)
    \/ \E r \in Reqs : HealthCheck(r)
    \/ \E r \in Reqs : ListModelsCall(r)
    \/ \E r \in Reqs : ListModelsReturn(r)
    \/ \E r \in Reqs : Deliver(r)

Spec == Init /\ [][Next]_vars


\* ------------------------------------------- one connection, richer bodies
RichContents == {T_hello_world, T_hi, T_odd}

RichMessage == [role : MessageRole, content : RichContents]

\* every message list of at most MaxMsgs messages
RichMessages == UNION {[1..n -> RichMessage] : n \in 0..MaxMsgs}

FormatCall(r) ==
    /\ reqs[r].pc = "idle"
    /\ \E msgs \in RichMessages : ChatBegin(r, ABSENT, msgs)
    /\ UNCHANGED clientVars

NextFormat ==
    \/ FormatCall(1)
    \/ ChatLookup(1)
    \/ ChatSend(1)
    \/ ChatReturnOk(1)
    \/ ChatReturnError(1)
    \/ Deliver(1)

SpecFormat == Init /\ [][NextFormat]_vars

\* ------------------------------------------------------------- frontend.py
ClientPrompts == {T_hi, T_hello_world}

\* model_options of the sidebar selectbox
model_options ==
    {"gemini-1.5-flash", "gemini-1.5-pro", "gemini-2.0-flash-lite", "gemini-2.0-flash"}

ZeroUsage == [prompt_tokens |-> 0, completion_tokens |-> 0, total_tokens |-> 0]

\* the connection the client's requests travel on
ClientConn == 1

UserTurns(messages) == Cardinality({i \in 1..Len(messages) : messages[i].role = "user"})

\* send_message, lines 149-157, with the usage taken from every response
UsageFromAny(usage, response) ==
    IF response.body # NoBody THEN response.body.usage ELSE ZeroUsage

\* send_message, lines 149-153: st.session_state.token_usage after a response
UsageAfter(usage, response) ==
    IF response.status = 200
    THEN (IF response.body.usage # NoBody THEN response.body.usage ELSE usage)
    ELSE usage

\* send_message, lines 149-157: the value returned for a response
ReturnedFor(response) ==
    IF response.status = 200 THEN response.body.response ELSE APOLOGY_API

\* lines 182-187: the prompt is appended to the history
UserTurn ==
    /\ cpc = "idle"
    /\ UserTurns(session.messages) < MaxTurns
    /\ \E prompt \in ClientPrompts :
         session' = [session EXCEPT !.messages =
                        Append(@, [role |-> "user", content |-> prompt])]
    /\ cpc' = "sending"
    /\ UNCHANGED <<reply, relayVars>>

\* send_message, lines 127-147: the whole history is posted
ClientPost ==
    /\ cpc = "sending"
    /\ ChatBegin(ClientConn, session.selected_model, session.messages)
    /\ cpc' = "waiting"
    /\ UNCHANGED <<session, reply>>

\* send_message, lines 158-160: requests.post raises
ClientPostFails ==
    /\ cpc = "sending"
    /\ reply' = APOLOGY_CONN
    /\ cpc' = "returned"
    /\ UNCHANGED <<session, relayVars>>

\* send_message, lines 149-157: the relay's response arrives
ClientOnResponse ==
    /\ cpc = "waiting"
    /\ Respond(ClientConn)
    /\ session' = [session EXCEPT !.token_usage =
                      UsageAfter(@, reqs[ClientConn].response)]
    /\ reply' = ReturnedFor(reqs[ClientConn].response)
    /\ cpc' = "returned"

\* lines 202-207: the returned value is appended to the history
ClientAppend ==
    /\ cpc = "returned"
    /\ session' = [session EXCEPT !.messages =
                      Append(@, [role |-> "assistant", content |-> reply])]
    /\ reply' = NoPrompt
    /\ cpc' = "idle"
    /\ UNCHANGED relayVars

\* lines 255-258: the clear button
ClearHistory ==
    /\ cpc = "idle"
    /\ session' = [session EXCEPT !.messages = <<>>, !.token_usage = ZeroUsage]
    /\ UNCHANGED <<cpc, reply, relayVars>>

\* lines 232-243: another model is selected
SwitchModel ==
    /\ cpc = "idle"
    /\ \E selected_model \in model_options :
         /\ selected_model # session.selected_model
         /\ session' = [session EXCEPT !.selected_model = selected_model,
                                       !.messages = <<>>,
                                       !.token_usage = ZeroUsage]
    /\ UNCHANGED <<cpc, reply, relayVars>>

NextClient ==
    \/ UserTurn
    \/ ClientPost
    \/ ClientPostFails
    \/ ChatInitOk(ClientConn)
    \/ ChatInitFail(ClientConn)
    \/ ChatLookup(ClientConn)
    \/ ChatSend(ClientConn)
    \/ ChatReturnOk(ClientConn)
    \/ ChatReturnError(ClientConn)
    \/ ClientOnResponse
    \/ ClientAppend
    \/ ClearHistory
    \/ SwitchModel

SpecClient == Init /\ [][NextClient]_vars

\* ------------------------------------------------------------------ claims
\* a chat request that passed validation and is in (or past) its handler
InChat(r) == reqs[r].op = "chat" /\ ValidBody(reqs[r].request.messages)

Finished(r) == reqs[r].pc = "done"

Usable(handle) == handle # None /\ handle # Unbound

\* C1: a chat request whose model value is not a supported identifier
\* (absent and null included) runs under the default identifier: no handle
\* is initialized for it, it is never rejected for the identifier, it ends
\* in 503 exactly when the default's handle is unavailable, and with a
\* usable default handle it ends in 200 unless the provider itself raised.
C1_UnsupportedRunsAsDefault ==
    \A r \in Reqs :
        (InChat(r) /\ reqs[r].request.model \notin SUPPORTED_MODELS) =>
            /\ reqs[r].model_name = DEFAULT_MODEL
            /\ reqs[r].pc # "init"
            /\ ~reqs[r].init_failed
            /\ Finished(r) =>
                 /\ reqs[r].response.status \in {200, 500, 503}
                 /\ reqs[r].response.status = 503 <=> model_instances[DEFAULT_MODEL] = None
                 /\ reqs[r].response.status = 500 <=> reqs[r].exc \in ProviderErrors
                 /\ (Usable(model_instances[DEFAULT_MODEL]) /\ reqs[r].exc = Unbound)
                        => reqs[r].response.status = 200

C1_Witness ==
    \E r \in Reqs :
        /\ InChat(r) /\ Finished(r)
        /\ reqs[r].request.model \in {NULL, "gemini-pro-vision"}
        /\ reqs[r].response.status = 200

\* C2: after a failed initialization the call goes on under the default
\* model and its handle; the call ends in 503, naming the model finally
\* selected and without a provider call, exactly when the handle finally
\* selected is unavailable; every other validated call makes its provider call.
C2_FallbackAnd503 ==
    \A r \in Reqs :
        InChat(r) =>
            /\ reqs[r].init_failed => reqs[r].model_name = DEFAULT_MODEL
            /\ Finished(r) =>
                 /\ reqs[r].init_failed => reqs[r].model = model_instances[DEFAULT_MODEL]
                 /\ reqs[r].response.status = 503 <=> reqs[r].model = None
                 /\ reqs[r].response.status = 503 =>
                        /\ reqs[r].calls = 0
                        /\ reqs[r].response.detail[2] = reqs[r].model_name
                 /\ reqs[r].response.status # 503 =>
                        /\ reqs[r].calls = 1
                        /\ Usable(reqs[r].model)

C2_Witness ==
    \E r \in Reqs :
        /\ InChat(r) /\ Finished(r)
        /\ reqs[r].init_failed
        /\ reqs[r].request.model = "gemini-1.5-pro"
        /\ reqs[r].response.status = 503

\* C3: a chat request with an empty message list is answered 400, with no
\* handle initialized or looked up and no provider call made for it.
C3_EmptyMessagesAnswered400 ==
    \A r \in Reqs :
        (reqs[r].op = "chat" /\ Finished(r) /\ reqs[r].request.messages = <<>>) =>
            /\ reqs[r].response.status = 400
            /\ reqs[r].model = Unbound
            /\ reqs[r].calls = 0

\* C5: a chat request invokes the provider at most once, and when the
\* provider raises the request ends at once in 500 whose detail is the
\* text of the exception raised, the handle cache being left as it was.
C5_ProviderFailureSurfaced ==
    /\ [](\A r \in Reqs : reqs[r].calls <= 1)
    /\ [][\A r \in Reqs :
            (reqs[r].op = "chat" /\ reqs[r].pc = "wait" /\ reqs'[r].exc # Unbound) =>
                /\ reqs'[r].pc = "done"
                /\ reqs'[r].response.status = 500
                /\ reqs'[r].response.detail = <<reqs'[r].exc.msg>>
                /\ reqs'[r].calls = 1
                /\ model_instances' = model_instances]_vars

C5_Witness ==
    \E r \in Reqs :
        /\ InChat(r) /\ Finished(r)
        /\ reqs[r].exc \in ProviderErrors
        /\ reqs[r].response.status = 500
        /\ reqs[r].calls = 1

\* C7: every health call answers 200 with status healthy, the default model
\* identifier and exactly the identifiers whose handle was successfully
\* initialized so far, and leaves the cache and its history untouched.
C7_HealthReportsInitialized ==
    [][\A r \in Reqs :
         (reqs[r].pc = "idle" /\ reqs'[r].op = "health") =>
            /\ reqs'[r].pc = "done"
            /\ reqs'[r].response.status = 200
            /\ reqs'[r].response.body.status = "healthy"
            /\ reqs'[r].response.body.model = DEFAULT_MODEL
            /\ reqs'[r].response.body.available_models = initialized
            /\ UNCHANGED <<model_instances, writes, initialized>>
            /\ \A q \in Reqs \ {r} : reqs'[q] = reqs[q]]_vars

C7_Witness ==
    \E r \in Reqs :
        /\ reqs[r].op = "health" /\ Finished(r)
        /\ model_instances[DEFAULT_MODEL] = None
        /\ reqs[r].response.body.available_models = {"gemini-1.5-pro", "gemini-2.0-flash"}

\* C8: every key of the handle cache is assigned at most once, and an entry
\* holding a usable handle is never removed or given another value.
C8_CacheWrittenOnce ==
    /\ [](\A k \in DOMAIN writes : writes[k] <= 1)
    /\ [][\A k \in DOMAIN model_instances :
            model_instances[k] # None =>
                /\ k \in DOMAIN model_instances'
                /\ model_instances'[k] = model_instances[k]]_vars

\* a later request for an identifier some earlier request has memoized
C8_Witness ==
    \E r \in Reqs :
        /\ InChat(r) /\ reqs[r].pc = "wait"
        /\ reqs[r].model_name # DEFAULT_MODEL
        /\ DOMAIN model_instances = SUPPORTED_MODELS
        /\ writes[reqs[r].model_name] = 1

\* C9: while a chat call waits on its provider round-trip, a chat, health or
\* listModels call on another connection can start.
C9_NoOperationBlocksAnother ==
    \A p, q \in Reqs :
        (p # q /\ reqs[p].op = "chat" /\ reqs[p].pc = "wait" /\ reqs[q].pc = "idle") =>
            /\ ENABLED HealthCheck(q)
            /\ ENABLED ChatCall(q)
            /\ ENABLED ListModelsCall(q)


\* number of words of a text: the positions where a word starts
WordCount(text) ==
    Cardinality({i \in 1..Len(text) :
                    /\ text[i] \notin Whitespace
                    /\ (i = 1 \/ text[i - 1] \in Whitespace)})

\* C4: when a chat request with messages m1..mn reaches the provider, the
\* history handed over is m1..m(n-1) in order, each as its role with its
\* content as the single part, and the new turn sent is the content of mn.
C4_HistoryIsAllButLast ==
    \A r \in Reqs :
        (reqs[r].op = "chat" /\ reqs[r].calls >= 1) =>
            LET ms == reqs[r].request.messages
                n == Len(ms)
            IN /\ n >= 1
               /\ Len(reqs[r].history) = n - 1
               /\ \A i \in 1..(n - 1) :
                     /\ reqs[r].history[i].role = ms[i].role
                     /\ reqs[r].history[i].parts = <<ms[i].content>>
               /\ reqs[r].turn = ms[n].content

C4_Witness ==
    \E r \in Reqs :
        /\ reqs[r].op = "chat" /\ reqs[r].calls = 1
        /\ Len(reqs[r].request.messages) = 3
        /\ reqs[r].request.messages[1] = [role |-> "user", content |-> T_hello_world]
        /\ reqs[r].request.messages[2] = [role |-> "assistant", content |-> T_odd]
        /\ reqs[r].request.messages[3] = [role |-> "user", content |-> T_hi]

\* C6: the usage of a successful chat has prompt_tokens the word count of
\* the message contents joined by single spaces, completion_tokens the word
\* count of the generated text and total_tokens their sum, none negative;
\* contents "hello world", "hi" and the reply "hello there" give 3, 2, 5.
C6_UsageIsWordCounts ==
    \A r \in Reqs :
        (reqs[r].op = "chat" /\ Finished(r) /\ reqs[r].response.status = 200) =>
            LET usage == reqs[r].response.body.usage
                cs == Contents(reqs[r].request.messages)
                text == reqs[r].response.body.response
            IN /\ usage.prompt_tokens = WordCount(PyJoin(<<" ">>, cs))
               /\ usage.completion_tokens = WordCount(text)
               /\ usage.total_tokens = usage.prompt_tokens + usage.completion_tokens
               /\ usage.prompt_tokens >= 0
               /\ usage.completion_tokens >= 0
               /\ usage.total_tokens >= 0
               /\ (cs = <<T_hello_world, T_hi>> /\ text = T_hello_there) =>
                     /\ usage.prompt_tokens = 3
                     /\ usage.completion_tokens = 2
                     /\ usage.total_tokens = 5

C6_Witness ==
    \E r \in Reqs :
        /\ reqs[r].op = "chat" /\ Finished(r) /\ reqs[r].response.status = 200
        /\ Contents(reqs[r].request.messages) = <<T_hello_world, T_hi>>
        /\ reqs[r].response.body.response = T_hello_there
        /\ reqs[r].response.body.usage.total_tokens = 5

Apologies == {APOLOGY_API, APOLOGY_CONN}

\* C10 as stated: every assistant entry of the client's history is a
\* response the relay returned.
C10_HistoryHoldsOnlyRelayResponses ==
    \A i \in 1..Len(session.messages) :
        session.messages[i].role = "assistant" =>
            session.messages[i].content \in ProviderReplies

\* C10 as amended: a user turn is appended to the history and the whole
\* history is posted with the selected model; a 200 response yields the
\* relay's text and usage, any other response or a failed post yields an
\* apology string with the history and the usage counter as they were; the
\* value so obtained, apology included, is appended as the assistant entry.
C10_TurnAppendsResponseOrApology ==
    /\ [][(cpc = "idle" /\ cpc' = "sending") =>
            /\ \E prompt \in ClientPrompts :
                 session'.messages =
                    Append(session.messages, [role |-> "user", content |-> prompt])
            /\ session'.token_usage = session.token_usage]_vars
    /\ [][(cpc = "sending" /\ cpc' = "waiting") =>
            /\ reqs'[ClientConn].request.messages = session.messages
            /\ reqs'[ClientConn].request.model = session.selected_model
            /\ session' = session]_vars
    /\ [][(cpc = "sending" /\ cpc' = "returned") =>
            /\ reply' = APOLOGY_CONN
            /\ session' = session]_vars
    /\ [][(cpc = "waiting" /\ cpc' = "returned") =>
            /\ session'.messages = session.messages
            /\ reqs[ClientConn].response.status = 200 =>
                 /\ reply' = reqs[ClientConn].response.body.response
                 /\ session'.token_usage = reqs[ClientConn].response.body.usage
            /\ reqs[ClientConn].response.status # 200 =>
                 /\ reply' = APOLOGY_API
                 /\ session'.token_usage = session.token_usage]_vars
    /\ [][(cpc = "returned" /\ cpc' = "idle") =>
            /\ session'.messages =
                 Append(session.messages, [role |-> "assistant", content |-> reply])
            /\ session'.token_usage = session.token_usage]_vars
    /\ [](cpc = "idle" =>
            /\ Len(session.messages) % 2 = 0
            /\ \A i \in 1..Len(session.messages) :
                 IF i % 2 = 1
                 THEN /\ session.messages[i].role = "user"
                      /\ session.messages[i].content \in ClientPrompts
                 ELSE /\ session.messages[i].role = "assistant"
                      /\ session.messages[i].content \in ProviderReplies \cup Apologies)

\* a failed turn followed by a served one: the apology stays in the history
C10_Witness ==
    /\ cpc = "idle"
    /\ Len(session.messages) = 4
    /\ session.messages[2].content = APOLOGY_API
    /\ session.messages[4].content \in ProviderReplies
    /\ session.token_usage # ZeroUsage

\* C11: the default identifier is always a key of the handle cache, every
\* key is a supported identifier and only the default's entry can be None;
\* so the name a chat call looks up is always a key (no call ends in the
\* KeyError response), the cache holds at most the allow-list, and the
\* default's entry is assigned at startup only and never changes.
C11_CacheWithinAllowList ==
    /\ [](/\ DEFAULT_MODEL \in DOMAIN model_instances
          /\ DOMAIN model_instances \subseteq SUPPORTED_MODELS
          /\ Cardinality(DOMAIN model_instances) <= Cardinality(SUPPORTED_MODELS)
          /\ \A k \in DOMAIN model_instances :
                \/ model_instances[k] = GenerativeModel(k)
                \/ (k = DEFAULT_MODEL /\ model_instances[k] = None)
          /\ writes[DEFAULT_MODEL] = 1
          /\ \A r \in Reqs :
                reqs[r].op = "chat" =>
                    /\ reqs[r].pc \in {"lookup", "send", "wait"}
                          => reqs[r].model_name \in DOMAIN model_instances
                    /\ reqs[r].response.detail # <<"Internal Server Error">>)
    /\ [][model_instances'[DEFAULT_MODEL] = model_instances[DEFAULT_MODEL]]_vars

\* every supported identifier has been requested, one call fell back after a
\* failed initialization, and the default's entry is still the None of startup
C11_Witness ==
    /\ model_instances[DEFAULT_MODEL] = None
    /\ Cardinality(DOMAIN model_instances) >= 3
    /\ \E r \in Reqs :
          /\ InChat(r) /\ reqs[r].pc = "lookup"
          /\ reqs[r].init_failed
          /\ reqs[r].request.model \in SUPPORTED_MODELS \ DOMAIN model_instances

====
